---- MODULE Spec2Model ----
(***************************************************************************)
(* LDAR-Sim utilities: utils/distributions.py (fit_dist, leak_rvs,         *)
(* unpackage_dist) and utils/generic_functions.py (gap_calculator,         *)
(* geo_idx, init_orbit_poly).                                              *)
(*                                                                         *)
(* Python values: None is the empty tuple <<>>, an optional value x is     *)
(* <<x>>; a list or tuple is a sequence.                                   *)
(***************************************************************************)
EXTENDS Integers, Sequences, FiniteSets, TLC

VARIABLES
    \* ---- leak_rvs(distribution, max_size, gpsec_conversion)
    leak_pc,            \* "loop" inside `while True`, "done" after `return leaksize`
    max_size,           \* argument: None or <<number>>
    gpsec_conversion,   \* argument: None or <<input_metric, input_increment>>
    rawDraw,            \* value of the last distribution.rvs(); 0 before the first
    leaksize,           \* local `leaksize` (after the optional conversion); 0 before the first draw
    converted,          \* gas_convert was called in the last pass of the loop
    attempts            \* passes of the loop made so far (saturates at MaxAttempts)

leakVars == <<leak_pc, max_size, gpsec_conversion, rawDraw, leaksize, converted, attempts>>

VARIABLES
    \* ---- gap_calculator(condition_vector)
    condition_vector,   \* argument: a sequence of booleans, one per day
    max_gap             \* None before the call, <<returned value>> after it

gapVars == <<condition_vector, max_gap>>

VARIABLES
    \* ---- geo_idx(dd, dd_array), coordinates in thousandths of a degree
    dd,                 \* argument: the target coordinate
    dd_array,           \* argument: the candidate coordinates
    geo_index           \* None before the call, <<returned index>> after it

geoVars == <<dd, dd_array, geo_index>>

VARIABLES
    \* ---- init_orbit_poly(predictor, T1, T2, interval), times in minutes
    orbit_pc,           \* "loop" at the `while` test, "done" after `return`
    T1,                 \* argument, advanced by the loop
    T2,                 \* argument
    interval,           \* argument
    T1_start,           \* the value of T1 at the call
    day_list,           \* local list
    polygon_list        \* local list

orbitVars == <<orbit_pc, T1, T2, interval, T1_start, day_list, polygon_list>>

VARIABLES
    \* ---- fit_dist(samples, dist_type, loc, shape, scale)
    samples,            \* argument: None or <<sequence of samples>>
    dist_type,          \* argument: the name looked up in scipy.stats
    loc,                \* argument
    shape,              \* argument: a Python value (list, number, str or None)
    scale,              \* argument
    fit_result          \* None before the call, <<outcome of the call>> after it

fitVars == <<samples, dist_type, loc, shape, scale, fit_result>>

VARIABLES
    \* ---- unpackage_dist(program, wd)
    program,            \* program["subtypes"]: the subtype dicts, in the order of the dict
    configured,         \* the subtypes as the configuration was written
    fit_args,           \* per subtype: <<arguments of its fit_dist call>> in the last run, or None
    load_status,        \* "fresh", or how the last run ended: "returned" or "raised"
    loads               \* runs of unpackage_dist on this program so far

loadVars == <<program, configured, fit_args, load_status, loads>>

vars == <<leakVars, gapVars, geoVars, orbitVars, fitVars, loadVars>>

None == <<>>
Some(x) == <<x>>

Min(a, b) == IF a < b THEN a ELSE b
Max(a, b) == IF a > b THEN a ELSE b

(***************************************************************************)
(* leak_rvs                                                                *)
(***************************************************************************)
MaxRaw == 3         \* distribution.rvs() returns a value in 1..MaxRaw
MaxSize == 3        \* max_size is None or in 0..MaxSize
MaxAttempts == 3    \* the pass counter saturates here; the loop itself has no bound

RawValues == 1..MaxRaw
MaxSizes == {None} \cup {Some(m) : m \in 0..MaxSize}
Metrics == {"gram", "Gram", "kilogram", "mscf"}
Increments == {"second", "SECOND", "hour", "day"}
Conversions == {None} \cup {<<m, i>> : m \in Metrics, i \in Increments}

\* str.lower() on the strings above
lower(s) == CASE s = "Gram" -> "gram"
              [] s = "SECOND" -> "second"
              [] OTHER -> s

\* utils.unit_converter.gas_convert: the value, given in input_metric per
\* input_increment, expressed in grams per second
gas_convert(v, input_metric, input_increment) ==
    LET perUnit == CASE lower(input_metric) = "kilogram" -> 3
                     [] lower(input_metric) = "mscf" -> 2
                     [] OTHER -> 1
        perTime == CASE lower(input_increment) = "day" -> 3
                     [] lower(input_increment) = "hour" -> 2
                     [] OTHER -> 1
    IN  (v * perUnit * 2) \div perTime

\* Python truth value of max_size: None and 0 are false
Truthy(ms) == ms # None /\ ms[1] # 0

\* fault variant of Converts: the two unit tests joined by `or`
ConvertsBadOr(conv) ==
    /\ conv # None
    /\ (lower(conv[1]) # "gram" \/ lower(conv[2]) # "second")

\* the condition of the `if` that guards gas_convert
Converts(conv) ==
    /\ conv # None
    /\ lower(conv[1]) # "gram"
    /\ lower(conv[2]) # "second"

\* the condition of `break`
LoopBreak(ms, ls) == ~Truthy(ms) \/ ls < ms[1]

\* fault variant of leak_rvs_pass: the loop gives up after two passes
leak_rvs_capped(d) ==
    /\ leak_pc = "loop"
    /\ rawDraw' = d
    /\ converted' = Converts(gpsec_conversion)
    /\ leaksize' = IF converted'
                     THEN gas_convert(d, gpsec_conversion[1], gpsec_conversion[2])
                     ELSE d
    /\ attempts' = Min(attempts + 1, MaxAttempts)
    /\ leak_pc' = IF LoopBreak(max_size, leaksize') \/ attempts' >= 2
                    THEN "done" ELSE "loop"
    /\ UNCHANGED <<max_size, gpsec_conversion>>

\* one pass of the `while True` body with the draw d
leak_rvs_pass(d) ==
    /\ leak_pc = "loop"
    /\ rawDraw' = d
    /\ converted' = Converts(gpsec_conversion)
    /\ leaksize' = IF converted'
                     THEN gas_convert(d, gpsec_conversion[1], gpsec_conversion[2])
                     ELSE d
    /\ attempts' = Min(attempts + 1, MaxAttempts)
    /\ leak_pc' = IF LoopBreak(max_size, leaksize') THEN "done" ELSE "loop"
    /\ UNCHANGED <<max_size, gpsec_conversion>>

leak_rvs == \E d \in RawValues : leak_rvs_pass(d)

\* a pass whose draw leaves the loop
leak_rvs_qualifying == leak_rvs /\ leak_pc' = "done"

InitLeak ==
    /\ leak_pc = "loop"
    /\ max_size \in MaxSizes
    /\ gpsec_conversion \in Conversions
    /\ rawDraw = 0
    /\ leaksize = 0
    /\ converted = FALSE
    /\ attempts = 0

LeakIdle ==
    /\ leak_pc = "done"
    /\ max_size = None
    /\ gpsec_conversion = None
    /\ rawDraw = 0
    /\ leaksize = 0
    /\ converted = FALSE
    /\ attempts = 0

(***************************************************************************)
(* gap_calculator                                                          *)
(***************************************************************************)
MaxDays == 10       \* condition vectors have at most MaxDays entries

RECURSIVE SeqsUpTo(_, _)
SeqsUpTo(S, n) ==
    IF n = 0 THEN {<<>>}
    ELSE LET shorter == SeqsUpTo(S, n - 1)
         IN  shorter \cup {Append(q, x) : q \in {r \in shorter : Len(r) = n - 1}, x \in S}

\* np.where(condition_vector)[0]: the 0-based indices of the true entries, ascending
RECURSIVE where(_)
where(cv) ==
    IF cv = <<>> THEN <<>>
    ELSE LET front == where(SubSeq(cv, 1, Len(cv) - 1))
         IN  IF cv[Len(cv)] THEN Append(front, Len(cv) - 1) ELSE front

abs(x) == IF x < 0 THEN -x ELSE x

\* max(abs(x - y) for (x, y) in zip(indices[1:], indices[:-1]))
RECURSIVE mid_gap_of(_)
mid_gap_of(indices) ==
    IF Len(indices) = 2 THEN abs(indices[2] - indices[1])
    ELSE Max(abs(indices[Len(indices)] - indices[Len(indices) - 1]),
             mid_gap_of(SubSeq(indices, 1, Len(indices) - 1)))

\* fault variant of gap_calculator: the end gap counted from the day after the last true entry
gap_calculator_endgap(cv) ==
    LET indices == where(cv)
        n == Len(indices)
    IN  IF n = 0 THEN Some(Len(cv))
        ELSE IF n = 1 THEN Some(Max(indices[1], Len(cv) - indices[1] - 1))
        ELSE IF n > 0
             THEN Some(Max(Max(indices[1], mid_gap_of(indices)), Len(cv) - indices[n] - 1))
        ELSE None

\* the value gap_calculator returns: <<max_gap>>, or None when no branch assigns it
gap_calculator(cv) ==
    LET indices == where(cv)
        n == Len(indices)
    IN  IF n = 0 THEN Some(Len(cv))
        ELSE IF n = 1 THEN Some(Max(indices[1], Len(cv) - indices[1]))
        ELSE IF n > 0      \* len(indices[0] > 1): the length of the comparison array
             THEN Some(Max(Max(indices[1], mid_gap_of(indices)), Len(cv) - indices[n]))
        ELSE None

gap_calculator_call ==
    /\ max_gap = None
    /\ max_gap' = Some(gap_calculator(condition_vector))
    /\ UNCHANGED condition_vector

InitGap ==
    /\ condition_vector \in SeqsUpTo(BOOLEAN, MaxDays)
    /\ max_gap = None

GapIdle ==
    /\ condition_vector = <<>>
    /\ max_gap = None

(***************************************************************************)
(* geo_idx                                                                 *)
(***************************************************************************)
MaxArrLen == 5      \* dd_array has 1..MaxArrLen entries

Candidates == {9000, 10000, 11000, 12000, 13000}
Targets == Candidates \cup {10123, 8000}

\* fault variant of argmin: the last occurrence of the minimum
RECURSIVE argmin_last(_)
argmin_last(a) ==
    IF Len(a) = 1 THEN 0
    ELSE LET before == argmin_last(SubSeq(a, 1, Len(a) - 1))
         IN  IF a[Len(a)] <= a[before + 1] THEN Len(a) - 1 ELSE before

\* np.argmin: the 0-based index of the first occurrence of the minimum
RECURSIVE argmin(_)
argmin(a) ==
    IF Len(a) = 1 THEN 0
    ELSE LET before == argmin(SubSeq(a, 1, Len(a) - 1))
         IN  IF a[Len(a)] < a[before + 1] THEN Len(a) - 1 ELSE before

\* (np.abs(dd_array - dd)).argmin()
geo_idx(d, arr) == argmin([i \in 1..Len(arr) |-> abs(arr[i] - d)])

geo_idx_call ==
    /\ geo_index = None
    /\ geo_index' = Some(geo_idx(dd, dd_array))
    /\ UNCHANGED <<dd, dd_array>>

InitGeo ==
    /\ dd \in Targets
    /\ dd_array \in SeqsUpTo(Candidates, MaxArrLen) \ {<<>>}
    /\ geo_index = None

GeoIdle ==
    /\ dd = 0
    /\ dd_array = <<>>
    /\ geo_index = None

(***************************************************************************)
(* init_orbit_poly                                                         *)
(***************************************************************************)
MaxTime == 6        \* T2 is in 0..MaxTime, and a call makes at most MaxTime + 1 passes
MaxStart == 2       \* T1 is in 0..MaxStart
MaxInterval == 3    \* interval is in 0..MaxInterval

\* ecef_to_llh(predictor.get_position(t).position_ecef): the latitude and the
\* longitude of the satellite at time t, as terms over t; `tenths` is the
\* offset the polygon corner adds to the coordinate, in tenths of a degree
lat(t, tenths) == [coord |-> "lat", at |-> t, plus |-> tenths]
lon(t, tenths) == [coord |-> "lon", at |-> t, plus |-> tenths]

\* Polygon([pt1, pt2, pt3, pt4]) for the positions at t and at st
Polygon(t, st) ==
    << <<lon(t, 0), lat(t, 1)>>,
       <<lon(t, 1), lat(t, 0)>>,
       <<lon(st, 0), lat(st, -1)>>,
       <<lon(st, -1), lat(st, 0)>> >>

\* fault variant of init_orbit_poly: the timestamp appended is the end of the step
init_orbit_poly_late ==
    /\ orbit_pc = "loop"
    /\ Len(day_list) <= MaxTime
    /\ IF T1 # T2
         THEN LET st == T1 + interval
              IN  /\ polygon_list' = Append(polygon_list, Polygon(T1, st))
                  /\ day_list' = Append(day_list, st)
                  /\ T1' = T1 + interval
                  /\ UNCHANGED orbit_pc
         ELSE /\ orbit_pc' = "done"
              /\ UNCHANGED <<T1, day_list, polygon_list>>
    /\ UNCHANGED <<T2, interval, T1_start>>

\* the `while T1 != T2` test, followed by one pass of the body or by `return`
init_orbit_poly ==
    /\ orbit_pc = "loop"
    /\ Len(day_list) <= MaxTime
    /\ IF T1 # T2
         THEN LET st == T1 + interval
              IN  /\ polygon_list' = Append(polygon_list, Polygon(T1, st))
                  /\ day_list' = Append(day_list, T1)
                  /\ T1' = T1 + interval
                  /\ UNCHANGED orbit_pc
         ELSE /\ orbit_pc' = "done"
              /\ UNCHANGED <<T1, day_list, polygon_list>>
    /\ UNCHANGED <<T2, interval, T1_start>>

InitOrbit ==
    /\ orbit_pc = "loop"
    /\ T1 \in 0..MaxStart
    /\ T2 \in 0..MaxTime
    /\ interval \in 0..MaxInterval
    /\ T1_start = T1
    /\ day_list = <<>>
    /\ polygon_list = <<>>

OrbitIdle ==
    /\ orbit_pc = "done"
    /\ T1 = 0
    /\ T2 = 0
    /\ interval = 0
    /\ T1_start = 0
    /\ day_list = <<>>
    /\ polygon_list = <<>>

(***************************************************************************)
(* Python values handed to fit_dist, tagged with their type                *)
(***************************************************************************)
PyNone == [t |-> "None"]
PyNum(n) == [t |-> "num", n |-> n]                  \* the number n / 10 (n in tenths)
PyStr(chars) == [t |-> "str", chars |-> chars]      \* chars: one-character strings
PyList(items) == [t |-> "list", items |-> items]    \* items: Python values
PyTuple(items) == [t |-> "tuple", items |-> items]

\* np.exp(x), as a term over x
np_exp(x) == [t |-> "exp", of |-> x]

(***************************************************************************)
(* json.loads on texts of non-negative numbers with at most one decimal    *)
(* and of lists of them                                                    *)
(***************************************************************************)
DigitOf == "0" :> 0 @@ "1" :> 1 @@ "2" :> 2 @@ "3" :> 3 @@ "4" :> 4 @@
           "5" :> 5 @@ "6" :> 6 @@ "7" :> 7 @@ "8" :> 8 @@ "9" :> 9

RECURSIVE strip(_)
strip(cs) ==
    IF cs = <<>> THEN cs
    ELSE IF cs[1] = " " THEN strip(Tail(cs))
    ELSE IF cs[Len(cs)] = " " THEN strip(SubSeq(cs, 1, Len(cs) - 1))
    ELSE cs

\* the value of a sequence of digits
RECURSIVE number_value(_)
number_value(cs) ==
    IF cs = <<>> THEN 0
    ELSE 10 * number_value(SubSeq(cs, 1, Len(cs) - 1)) + DigitOf[cs[Len(cs)]]

\* an integer part: digits, without a leading zero
is_int_part(cs) ==
    /\ cs # <<>>
    /\ \A k \in 1..Len(cs) : cs[k] \in DOMAIN DigitOf
    /\ (Len(cs) > 1 => cs[1] # "0")

Failed == [ok |-> FALSE, val |-> PyNone]
Parsed(val) == [ok |-> TRUE, val |-> val]

\* digits, or digits "." digit
parse_number(cs) ==
    IF is_int_part(cs) THEN Parsed(PyNum(10 * number_value(cs)))
    ELSE IF /\ Len(cs) >= 3
            /\ cs[Len(cs) - 1] = "."
            /\ cs[Len(cs)] \in DOMAIN DigitOf
            /\ is_int_part(SubSeq(cs, 1, Len(cs) - 2))
    THEN Parsed(PyNum(10 * number_value(SubSeq(cs, 1, Len(cs) - 2)) + DigitOf[cs[Len(cs)]]))
    ELSE Failed

\* the pieces of cs between the separators
RECURSIVE split(_, _)
split(cs, sep) ==
    IF \A k \in 1..Len(cs) : cs[k] # sep THEN <<cs>>
    ELSE LET k == CHOOSE j \in 1..Len(cs) :
                      cs[j] = sep /\ \A m \in 1..(j - 1) : cs[m] # sep
         IN  <<SubSeq(cs, 1, k - 1)>> \o split(SubSeq(cs, k + 1, Len(cs)), sep)

json_loads(cs) ==
    LET text == strip(cs)
    IN  IF text = <<>> THEN Failed
        ELSE IF text[1] = "["
        THEN IF Len(text) < 2 \/ text[Len(text)] # "]" THEN Failed
             ELSE LET inner == strip(SubSeq(text, 2, Len(text) - 1))
                      parts == split(inner, ",")
                      items == [k \in 1..Len(parts) |-> parse_number(strip(parts[k]))]
                  IN  IF inner = <<>> THEN Parsed(PyList(<<>>))
                      ELSE IF \A k \in 1..Len(items) : items[k].ok
                      THEN Parsed(PyList([k \in 1..Len(items) |-> items[k].val]))
                      ELSE Failed
        ELSE parse_number(text)

(***************************************************************************)
(* fit_dist                                                                *)
(***************************************************************************)
MaxSamples == 3     \* sample lists have at most MaxSamples entries

SampleValues == {-1, 0, 2}

\* the members of scipy.stats the model knows, with their number of shape parameters
Families == {"lognorm", "norm", "beta"}
NumShapes(family) == CASE family = "lognorm" -> 1
                       [] family = "beta" -> 2
                       [] OTHER -> 0

\* what dist.fit may do: whether the first and the second call succeed, and the
\* shape parameters and the scale a successful call estimates
Oracles(family) ==
    [ok1 : BOOLEAN, ok2 : BOOLEAN,
     shapes : {q \in SeqsUpTo({40, 50}, NumShapes(family)) : Len(q) = NumShapes(family)},
     fitscale : {60}]

NoOracle == [ok1 |-> TRUE, ok2 |-> TRUE, shapes |-> <<>>, fitscale |-> 60]

\* fault variant of positive: zero samples kept
RECURSIVE nonnegative(_)
nonnegative(smp) ==
    IF smp = <<>> THEN <<>>
    ELSE IF smp[1] >= 0 THEN <<smp[1]>> \o nonnegative(Tail(smp))
    ELSE nonnegative(Tail(smp))

\* [s for s in samples if s > 0]
RECURSIVE positive(_)
positive(smp) ==
    IF smp = <<>> THEN <<>>
    ELSE IF smp[1] > 0 THEN <<smp[1]>> \o positive(Tail(smp))
    ELSE positive(Tail(smp))

Raised(by, calls, oks) ==
    [outcome |-> "raised", by |-> by, fitCalls |-> calls, fitOk |-> oks, dist |-> None]
Returned(calls, oks, d) ==
    [outcome |-> "returned", by |-> "", fitCalls |-> calls, fitOk |-> oks, dist |-> Some(d)]

\* `if not isinstance(shape, list): shape = [shape]`
as_list(sh) == IF sh.t # "list" THEN <<sh>> ELSE sh.items

\* the outcome of fit_dist: the calls of dist.fit it made, and the arguments it
\* gave to dist(*shape, loc=loc, scale=scale) or the statement that raised
fit_dist(smp, family, lc, sh, sc, oracle) ==
    IF family \notin Families THEN Raised("getattr", <<>>, <<>>)
    ELSE
    LET fitted == smp # None
        calls == IF ~fitted THEN <<>>
                 ELSE IF oracle.ok1 THEN <<smp[1]>>
                 ELSE <<smp[1], positive(smp[1])>>
        oks == IF ~fitted THEN <<>>
               ELSE IF oracle.ok1 THEN <<TRUE>>
               ELSE <<FALSE, oracle.ok2>>
        param == [k \in 1..Len(oracle.shapes) |-> PyNum(oracle.shapes[k])]
                     \o <<lc, PyNum(oracle.fitscale)>>
        n == Len(param)
        loc1 == IF fitted THEN PyTuple(<<param[n - 1]>>) ELSE lc
        scale1 == IF fitted THEN param[n] ELSE sc
        shape1 == IF fitted THEN PyTuple(SubSeq(param, 1, n - 2)) ELSE sh
        loaded == IF shape1.t = "str" THEN json_loads(shape1.chars) ELSE Parsed(shape1)
    IN  IF fitted /\ ~oracle.ok1 /\ ~oracle.ok2 THEN Raised("fit", calls, oks)
        ELSE IF ~loaded.ok THEN Raised("json", calls, oks)
        ELSE Returned(calls, oks,
                      [dist_type |-> family, args |-> as_list(loaded.val),
                       loc |-> loc1, scale |-> scale1])

fit_dist_call ==
    /\ fit_result = None
    /\ \E oracle \in (IF dist_type \in Families THEN Oracles(dist_type) ELSE {NoOracle}) :
           fit_result' = Some(fit_dist(samples, dist_type, loc, shape, scale, oracle))
    /\ UNCHANGED <<samples, dist_type, loc, shape, scale>>

\* "[2, 23.4]", "[2,23.4]", "[12]", " 2", "0.5", "[]", and the malformed "[2," and "2x"
Texts ==
    { <<"[", "2", ",", " ", "2", "3", ".", "4", "]">>,
      <<"[", "2", ",", "2", "3", ".", "4", "]">>,
      <<"[", "1", "2", "]">>,
      <<" ", "2">>,
      <<"0", ".", "5">>,
      <<"[", "]">>,
      <<"[", "2", ",">>,
      <<"2", "x">> }

ShapeInputs ==
    {PyNone, PyNum(20), PyNum(5), PyList(<<>>), PyList(<<PyNum(20)>>),
     PyList(<<PyNum(20), PyNum(234)>>), PyList(<<PyNum(120)>>)}
        \cup {PyStr(cs) : cs \in Texts}

InitFit ==
    /\ samples \in {None} \cup {Some(q) : q \in SeqsUpTo(SampleValues, MaxSamples)}
    /\ dist_type \in Families \cup {"nosuchdist"}
    /\ loc = PyNum(0)
    /\ shape \in ShapeInputs
    /\ scale = PyNum(10)
    /\ fit_result = None

FitIdle ==
    /\ samples = None
    /\ dist_type = ""
    /\ loc = PyNone
    /\ shape = PyNone
    /\ scale = PyNone
    /\ fit_result = None

(***************************************************************************)
(* unpackage_dist                                                          *)
(***************************************************************************)
MaxSubtypes == 2    \* a program has 1..MaxSubtypes subtypes
MaxLoads == 2       \* unpackage_dist runs at most MaxLoads times on a program

\* the files under wd: a header line and the data lines
WorkingDirectory ==
    "leaks.csv" :> [header |-> <<"rate", "site">>, lines |-> << <<1, 7>>, <<2, 8>> >>]

\* np.array(pd.read_csv(wd / name).iloc[:, 0]): the first column of the data lines
first_column(name) ==
    LET lines == WorkingDirectory[name].lines
    IN  [k \in 1..Len(lines) |-> lines[k][1]]

\* the parametric subtypes of a configuration: the key leak_rate_source absent or "dist"
DistSubtypes ==
    [leak_rate_source : {None, Some("dist")},
     dist_type : {"lognorm", "norm", "nosuchdist"},
     dist_scale : {PyNum(10)},
     dist_shape : {PyList(<<PyNum(20)>>), PyStr(<<"[", "2", ",">>)},
     dist_sigma : {None, Some(PyNum(30))},
     leak_rates_file : {None},
     leak_rate_dist : {None},
     empirical_leak_rates : {None}]

SampleSubtypes ==
    [leak_rate_source : {Some("sample")},
     dist_type : {""},
     dist_scale : {PyNone},
     dist_shape : {PyNone},
     dist_sigma : {None},
     leak_rates_file : {Some("leaks.csv"), Some("missing.csv")},
     leak_rate_dist : {None},
     empirical_leak_rates : {None}]

Loaded(st, args) == [ok |-> TRUE, subtype |-> st, fitArgs |-> args]
Aborted(st, args) == [ok |-> FALSE, subtype |-> st, fitArgs |-> args]

\* fault variant of load_subtype: a subtype without the key leak_rate_source is skipped
load_subtype_absent_skipped(st) ==
    IF st.leak_rate_source = Some("dist")
    THEN LET sc == IF st.dist_type = "lognorm" THEN np_exp(st.dist_scale) ELSE st.dist_scale
             sh == IF st.dist_sigma # None THEN PyList(<<st.dist_sigma[1]>>) ELSE st.dist_shape
             st1 == [st EXCEPT !.dist_scale = sc, !.dist_shape = sh]
             args == Some([dist_type |-> st.dist_type, shape |-> sh, scale |-> sc])
             r == fit_dist(None, st.dist_type, PyNum(0), sh, sc, NoOracle)
         IN  IF r.outcome = "returned"
             THEN Loaded([st1 EXCEPT !.leak_rate_dist = r.dist], args)
             ELSE Aborted(st1, args)
    ELSE IF st.leak_rate_source = Some("sample")
    THEN IF st.leak_rates_file[1] \in DOMAIN WorkingDirectory
         THEN Loaded([st EXCEPT !.empirical_leak_rates =
                                    Some(first_column(st.leak_rates_file[1]))], None)
         ELSE Aborted(st, None)
    ELSE Loaded(st, None)

\* the body of the `for` loop for one subtype: the subtype dict after it, the
\* arguments of the fit_dist call it made, and whether it ended without raising
load_subtype(st) ==
    IF st.leak_rate_source = None \/ st.leak_rate_source = Some("dist")
    THEN LET sc == IF st.dist_type = "lognorm" THEN np_exp(st.dist_scale) ELSE st.dist_scale
             sh == IF st.dist_sigma # None THEN PyList(<<st.dist_sigma[1]>>) ELSE st.dist_shape
             st1 == [st EXCEPT !.dist_scale = sc, !.dist_shape = sh]
             args == Some([dist_type |-> st.dist_type, shape |-> sh, scale |-> sc])
             r == fit_dist(None, st.dist_type, PyNum(0), sh, sc, NoOracle)
         IN  IF r.outcome = "returned"
             THEN Loaded([st1 EXCEPT !.leak_rate_dist = r.dist], args)
             ELSE Aborted(st1, args)
    ELSE IF st.leak_rate_source = Some("sample")
    THEN IF st.leak_rates_file[1] \in DOMAIN WorkingDirectory
         THEN Loaded([st EXCEPT !.empirical_leak_rates =
                                    Some(first_column(st.leak_rates_file[1]))], None)
         ELSE Aborted(st, None)
    ELSE Loaded(st, None)

\* the `for` loop from subtype k on: it stops at the first subtype that raises
RECURSIVE unpackage_from(_, _, _)
unpackage_from(prog, args, k) ==
    IF k > Len(prog) THEN [program |-> prog, fit_args |-> args, status |-> "returned"]
    ELSE LET one == load_subtype(prog[k])
             prog1 == [prog EXCEPT ![k] = one.subtype]
             args1 == [args EXCEPT ![k] = one.fitArgs]
         IN  IF one.ok THEN unpackage_from(prog1, args1, k + 1)
             ELSE [program |-> prog1, fit_args |-> args1, status |-> "raised"]

unpackage_dist ==
    /\ loads < MaxLoads
    /\ LET run == unpackage_from(program, [k \in 1..Len(program) |-> None], 1)
       IN  /\ program' = run.program
           /\ fit_args' = run.fit_args
           /\ load_status' = run.status
    /\ loads' = loads + 1
    /\ UNCHANGED configured

InitLoad ==
    /\ program \in SeqsUpTo(DistSubtypes \cup SampleSubtypes, MaxSubtypes) \ {<<>>}
    /\ configured = program
    /\ fit_args = [k \in 1..Len(program) |-> None]
    /\ load_status = "fresh"
    /\ loads = 0

LoadIdle ==
    /\ program = <<>>
    /\ configured = <<>>
    /\ fit_args = <<>>
    /\ load_status = "fresh"
    /\ loads = 0

(***************************************************************************)
(* Specifications                                                          *)
(***************************************************************************)
Init == InitLeak /\ GapIdle /\ GeoIdle /\ OrbitIdle /\ FitIdle /\ LoadIdle
Next == leak_rvs /\ UNCHANGED <<gapVars, geoVars, orbitVars, fitVars, loadVars>>
Spec == Init /\ [][Next]_vars

\* the distribution keeps producing draws, and a draw that passes the size
\* test comes up again and again while one is possible
FairSpec == Init /\ [][Next]_vars /\ SF_vars(leak_rvs_qualifying /\ UNCHANGED <<gapVars, geoVars, orbitVars, fitVars, loadVars>>)

GapInit == LeakIdle /\ InitGap /\ GeoIdle /\ OrbitIdle /\ FitIdle /\ LoadIdle
GapNext == gap_calculator_call /\ UNCHANGED <<leakVars, geoVars, orbitVars, fitVars, loadVars>>
GapSpec == GapInit /\ [][GapNext]_vars

GeoInit == LeakIdle /\ GapIdle /\ InitGeo /\ OrbitIdle /\ FitIdle /\ LoadIdle
GeoNext == geo_idx_call /\ UNCHANGED <<leakVars, gapVars, orbitVars, fitVars, loadVars>>
GeoSpec == GeoInit /\ [][GeoNext]_vars

OrbitInit == LeakIdle /\ GapIdle /\ GeoIdle /\ InitOrbit /\ FitIdle /\ LoadIdle
OrbitNext == init_orbit_poly /\ UNCHANGED <<leakVars, gapVars, geoVars, fitVars, loadVars>>
\* the interpreter keeps executing the loop
OrbitSpec == OrbitInit /\ [][OrbitNext]_vars /\ WF_vars(OrbitNext)

FitInit == LeakIdle /\ GapIdle /\ GeoIdle /\ OrbitIdle /\ InitFit /\ LoadIdle
FitNext == fit_dist_call /\ UNCHANGED <<leakVars, gapVars, geoVars, orbitVars, loadVars>>
FitSpec == FitInit /\ [][FitNext]_vars

LoadInit == LeakIdle /\ GapIdle /\ GeoIdle /\ OrbitIdle /\ FitIdle /\ InitLoad
LoadNext == unpackage_dist /\ UNCHANGED <<leakVars, gapVars, geoVars, orbitVars, fitVars>>
LoadSpec == LoadInit /\ [][LoadNext]_vars

(***************************************************************************)
(* Claims                                                                  *)
(***************************************************************************)

\* C1: whenever max_size is supplied (is not None), the value leak_rvs returns,
\* taken after the unit conversion, is strictly below max_size.
C1_BelowMaxSize ==
    (leak_pc = "done" /\ max_size # None) => leaksize < max_size[1]

GramSpellings == {"gram", "Gram"}
SecondSpellings == {"second", "SECOND"}

\* C2: a pass of leak_rvs calls gas_convert exactly when a pair is supplied whose
\* metric is not "gram" and whose increment is not "second" in any letter case;
\* otherwise the converter is not called and leaksize is the raw draw.
C2_ConvertsExactlyWhen ==
    attempts > 0 =>
        LET skips == \/ gpsec_conversion = None
                     \/ gpsec_conversion[1] \in GramSpellings
                     \/ gpsec_conversion[2] \in SecondSpellings
        IN  /\ converted <=> ~skips
            /\ skips => leaksize = rawDraw
            /\ ~skips => leaksize = gas_convert(rawDraw, gpsec_conversion[1],
                                                 gpsec_conversion[2])

\* the mixed case: metric "gram", increment not "second", and the draw is returned raw
C2_Witness ==
    /\ leak_pc = "done"
    /\ gpsec_conversion = <<"Gram", "hour">>
    /\ ~converted
    /\ leaksize = rawDraw
    /\ rawDraw = 2

\* C6: the loop of leak_rvs has no retry cap and no failure exit: the only states
\* are in the loop or returned; a return after more than one pass is a return of
\* a value below max_size; without max_size the call returns after one pass; and
\* while some draw can pass the size test, the call eventually returns.
C6_NoCapTerminates ==
    /\ [](leak_pc \in {"loop", "done"})
    /\ []((leak_pc = "done" /\ attempts >= 2) =>
              (max_size # None /\ leaksize < max_size[1]))
    /\ []((leak_pc = "done" /\ max_size = None) => attempts = 1)
    /\ [][(leak_pc = "loop" /\ max_size # None /\ max_size[1] > 0
              /\ leaksize' >= max_size[1]) => leak_pc' = "loop"]_vars
    /\ (leak_pc = "loop" /\ ENABLED leak_rvs_qualifying) ~> (leak_pc = "done")

\* a draw was rejected, and a later draw was returned
C6_Witness ==
    /\ leak_pc = "done"
    /\ attempts = MaxAttempts
    /\ max_size = Some(2)
    /\ leaksize = 1

\* C7: gap_calculator returns the largest of: the index of the first true entry,
\* the differences of successive true indices, and the length minus the last
\* true index; the length when no entry is true.
TrueIdx == {i \in 0..(Len(condition_vector) - 1) : condition_vector[i + 1]}
SetMax(S) == CHOOSE x \in S : \A y \in S : y <= x
SetMin(S) == CHOOSE x \in S : \A y \in S : x <= y
Gaps ==
    {SetMin(TrueIdx), Len(condition_vector) - SetMax(TrueIdx)}
        \cup {j - i : <<i, j>> \in {p \in TrueIdx \X TrueIdx :
                        /\ p[1] < p[2]
                        /\ ~\E k \in TrueIdx : p[1] < k /\ k < p[2]}}
Example259 == [i \in 1..10 |-> i \in {3, 6, 10}]

C7_MaxGap ==
    max_gap # None =>
        /\ max_gap[1] # None
        /\ TrueIdx = {} => max_gap[1] = Some(Len(condition_vector))
        /\ TrueIdx # {} => max_gap[1] = Some(SetMax(Gaps))
        /\ Cardinality(TrueIdx) = 1 =>
               max_gap[1] = Some(Max(SetMin(TrueIdx), Len(condition_vector) - SetMin(TrueIdx)))
        /\ TrueIdx = {0} => max_gap[1] = Some(Len(condition_vector))
        /\ condition_vector = Example259 => max_gap[1] = Some(4)

C7_Witness ==
    /\ condition_vector = Example259
    /\ max_gap = Some(Some(4))

\* C8: geo_idx returns the first index of dd_array whose distance to dd is the
\* least over the array; 10.123 in [9, 10, 11, 12, 13] gives index 1.
ExampleArray == <<9000, 10000, 11000, 12000, 13000>>

C8_NearestFirst ==
    geo_index # None =>
        LET i == geo_index[1]
            dist(k) == abs(dd_array[k + 1] - dd)
        IN  /\ i \in 0..(Len(dd_array) - 1)
            /\ \A k \in 0..(Len(dd_array) - 1) : dist(i) <= dist(k)
            /\ \A k \in 0..(i - 1) : dist(k) > dist(i)
            /\ (dd = 10123 /\ dd_array = ExampleArray) => i = 1

\* a tie: 9 and 11 are equally close to 10 and the first of them is returned
C8_Witness ==
    /\ dd = 10000
    /\ dd_array = <<13000, 11000, 9000, 11000>>
    /\ geo_index = Some(1)

\* C10: when T2 - T1 is k intervals, k >= 0, init_orbit_poly returns, and it
\* returns k timestamps T1 + i*interval, each at or after T1 and before T2, and
\* k polygons, the i-th built from the positions at T1 + i*interval and
\* T1 + (i+1)*interval.
WholeMultiple(k) == T2 - T1_start = k * interval

C10_OrbitLists ==
    /\ []((orbit_pc = "done") =>
            \E k \in 0..MaxTime :
                /\ WholeMultiple(k)
                /\ Len(day_list) = k
                /\ Len(polygon_list) = k
                /\ \A i \in 1..k :
                    /\ day_list[i] = T1_start + (i - 1) * interval
                    /\ day_list[i] >= T1_start
                    /\ day_list[i] < T2
                    /\ i > 1 => day_list[i - 1] < day_list[i]
                    /\ polygon_list[i] = Polygon(T1_start + (i - 1) * interval,
                                                 T1_start + i * interval))
    /\ ((\E k \in 0..MaxTime : WholeMultiple(k)) ~> (orbit_pc = "done"))

C10_Witness ==
    /\ orbit_pc = "done"
    /\ T1_start = 1
    /\ T2 = 5
    /\ interval = 2
    /\ day_list = <<1, 3>>
    /\ Len(polygon_list) = 2

\* C5: in empirical-fit mode fit_dist calls dist.fit on the samples as given; if
\* that call succeeds there is no second call; if it fails there is exactly one
\* more call, on the samples s > 0 in their order; if that fails too fit_dist
\* raises and returns no distribution.
IsPositive(s) == s > 0

C5_RetryOnce ==
    (fit_result # None /\ samples # None /\ dist_type \in Families) =>
        LET r == fit_result[1]
            calls == r.fitCalls
        IN  /\ Len(calls) \in {1, 2}
            /\ Len(r.fitOk) = Len(calls)
            /\ calls[1] = samples[1]
            /\ r.fitOk[1] => Len(calls) = 1
            /\ ~r.fitOk[1] =>
                   (Len(calls) = 2 /\ calls[2] = SelectSeq(samples[1], IsPositive))
            /\ (r.outcome = "raised" /\ r.by = "fit") <=> (\A k \in 1..Len(calls) : ~r.fitOk[k])
            /\ (\A k \in 1..Len(calls) : ~r.fitOk[k]) => r.dist = None

\* the first fit failed, the zero and the negative sample were dropped, the second fit succeeded
C5_Witness ==
    /\ samples = Some(<<0, 2, -1>>)
    /\ fit_result # None
    /\ fit_result[1].fitCalls = <<(<<0, 2, -1>>), (<<2>>)>>
    /\ fit_result[1].fitOk = <<FALSE, TRUE>>
    /\ fit_result[1].outcome = "returned"

\* the numeric value a text of Texts encodes
Encodes(cs) ==
    CASE cs = <<"[", "2", ",", " ", "2", "3", ".", "4", "]">> -> PyList(<<PyNum(20), PyNum(234)>>)
      [] cs = <<"[", "2", ",", "2", "3", ".", "4", "]">> -> PyList(<<PyNum(20), PyNum(234)>>)
      [] cs = <<"[", "1", "2", "]">> -> PyList(<<PyNum(120)>>)
      [] cs = <<" ", "2">> -> PyNum(20)
      [] cs = <<"0", ".", "5">> -> PyNum(5)
      [] cs = <<"[", "]">> -> PyList(<<>>)
      [] OTHER -> PyNone

ShapeSequenceOf(value) == IF value.t = "num" THEN <<value>> ELSE value.items

\* parametric mode: a list as given, a scalar as a one-element sequence, a text as
\* the sequence of the value it encodes
C9_Parametric ==
    (fit_result # None /\ samples = None /\ dist_type \in Families) =>
        LET r == fit_result[1]
        IN  /\ shape.t \in {"list", "num"} =>
                (r.outcome = "returned" /\ r.dist[1].args = ShapeSequenceOf(shape))
            /\ (shape.t = "str" /\ Encodes(shape.chars) # PyNone) =>
                (r.outcome = "returned"
                    /\ r.dist[1].args = ShapeSequenceOf(Encodes(shape.chars)))
            /\ (shape.t = "str" /\ Encodes(shape.chars) = PyNone) =>
                (r.outcome = "raised" /\ r.by = "json")

\* empirical-fit mode: one numeric entry per fitted shape parameter
C9_Empirical ==
    (fit_result # None /\ samples # None /\ fit_result[1].outcome = "returned") =>
        LET args == fit_result[1].dist[1].args
        IN  /\ Len(args) = NumShapes(dist_type)
            /\ \A k \in 1..Len(args) : args[k].t = "num"

\* C9: the positional arguments fit_dist gives the distribution constructor are
\* one number per shape parameter, in parametric mode and in empirical-fit mode.
C9_ShapeSequence == C9_Parametric /\ C9_Empirical

\* C3: after unpackage_dist returns, a subtype configured in dist mode (source
\* absent or "dist") has leak_rate_dist and no empirical_leak_rates, a subtype
\* configured in sample mode has empirical_leak_rates, no leak_rate_dist and no
\* fit was made for it: exactly one of the two fields is populated.
C3_ExactlyOneField ==
    load_status = "returned" =>
        \A k \in 1..Len(program) :
            LET dist_mode == configured[k].leak_rate_source \in {None, Some("dist")}
                has_dist == program[k].leak_rate_dist # None
                has_rates == program[k].empirical_leak_rates # None
            IN  /\ has_dist # has_rates
                /\ dist_mode => has_dist
                /\ ~dist_mode => (has_rates /\ fit_args[k] = None)

\* a program with a parametric subtype (source absent) and a sample subtype, loaded
C3_Witness ==
    /\ load_status = "returned"
    /\ Len(program) = 2
    /\ configured[1].leak_rate_source = None
    /\ program[1].leak_rate_dist # None
    /\ program[2].empirical_leak_rates = Some(<<1, 2>>)
    /\ program[2].leak_rate_dist = None

\* C4: when a run of unpackage_dist constructs the distribution of a lognorm
\* subtype, the scale it passes to fit_dist is exp of the configured dist_scale,
\* exp applied once, in every run of the loader.
C4_ScaleExpOnce ==
    \A k \in 1..Len(program) :
        (/\ fit_args[k] # None
         /\ program[k].leak_rate_dist # None
         /\ configured[k].dist_type = "lognorm") =>
            /\ fit_args[k][1].scale = np_exp(configured[k].dist_scale)
            /\ program[k].leak_rate_dist[1].scale = np_exp(configured[k].dist_scale)

====
